---- MODULE Spec2Model ----
(***************************************************************************)
(* ECDSA over a prescribed elliptic-curve group: nonce rejection sampling, *)
(* sign, verify, generic public-point recovery and fast recovery, in the   *)
(* generic higher-order form (src/src/ecdsa.ts) and in the class form      *)
(* (src/unnamed/part_001).                                                 *)
(*                                                                         *)
(* The field, curve and domain arithmetic (FiniteField, FiniteCurve,       *)
(* FiniteDomain) are external packages; they are modelled here from their  *)
(* interface: scalars mod the field order, affine points of a short        *)
(* Weierstrass curve y^2 = x^3 + a x + b over a prime field.               *)
(***************************************************************************)
EXTENDS Integers, Sequences, FiniteSets, TLC

(***************************************************************************)
(* Bounds of the model.                                                    *)
(***************************************************************************)
\* message digests are the integers 0..MaxDigest (larger than every small n)
MaxDigest == 14
\* secrets signed with are 1..MaxSecret
MaxSecret == 4
\* signatures handed to verify/recover directly have r, s in -MaxOut..n+MaxOut
MaxOut == 1
\* digests handed to verify/recover directly are 0..MaxArgDigest
MaxArgDigest == 2
\* public points handed to verify directly are d.G for d in 1..MaxArgSecret
MaxArgSecret == 3
\* the class form is constructed with hashlen in 1..MaxHashlen; a message (a
\* hash) has MaxHashlen bytes
MaxHashlen == 2
\* the random source gives the byte strings of value 0..N+MaxDraw, N the
\* value of the bound the sampler compares with
MaxDraw == 1
\* a consumer of the recovery generator writes values 1..MaxTamper into the
\* signature or the message between two yields
MaxTamper == 1

(***************************************************************************)
(* FiniteField (external package): arithmetic mod a prime m.               *)
(***************************************************************************)
F_add(m, a, b) == (a + b) % m

F_multiply(m, a, b) == (a * b) % m

\* additive inverse
F_inverse(m, a) == (m - (a % m)) % m

F_subtract(m, a, b) == F_add(m, a, F_inverse(m, b))

\* square-and-multiply.  (Here and below a value that is used more than
\* once is bound through a singleton set, which evaluates it once.)
RECURSIVE F_power(_, _, _)
F_power(m, a, x) ==
    IF x = 0 THEN 1 % m
    ELSE CHOOSE z \in { IF x % 2 = 1 THEN (hf * hf * (a % m)) % m ELSE (hf * hf) % m :
                        hf \in {F_power(m, a, x \div 2)} } : TRUE

\* multiplicative inverse
F_reciprocal(m, a) == F_power(m, a % m, m - 2)

F_divide(m, a, b) == F_multiply(m, a, F_reciprocal(m, b))

(***************************************************************************)
(* FinitePoint / FiniteCurve (external package).  A fresh FinitePoint is   *)
(* the identity, with undefined coordinates.                               *)
(***************************************************************************)
Undefined == 0 - 1

FinitePoint == [x |-> Undefined, y |-> Undefined, isIdentity |-> TRUE]

Point(x, y) == [x |-> x, y |-> y, isIdentity |-> FALSE]

E_negate(T, P) ==
    IF P.isIdentity THEN P ELSE Point(P.x, F_inverse(T.p, P.y))

\* the point on the line of slope l through P, given its x
E_third(T, P, l, x) ==
    Point(x, F_subtract(T.p, F_multiply(T.p, l, F_subtract(T.p, P.x, x)), P.y))

E_chord(T, P, Q, l) ==
    CHOOSE Z \in
      { E_third(T, P, l, x) :
          x \in {F_subtract(T.p, F_subtract(T.p, F_multiply(T.p, l, l), P.x), Q.x)} } : TRUE

\* chord-and-tangent addition of two finite points
E_addFinite(T, P, Q) ==
    CHOOSE Z \in
      { E_chord(T, P, Q, l) :
          l \in { IF P.x = Q.x
                  THEN F_divide(T.p, F_add(T.p, 3 * P.x * P.x, T.a), 2 * P.y)
                  ELSE F_divide(T.p, F_subtract(T.p, Q.y, P.y),
                                     F_subtract(T.p, Q.x, P.x)) } } : TRUE

E_addValues(T, P, Q) ==
    IF P.isIdentity THEN Q
    ELSE IF Q.isIdentity THEN P
    ELSE IF P.x = Q.x /\ F_add(T.p, P.y, Q.y) = 0 THEN FinitePoint
    ELSE E_addFinite(T, P, Q)

E_add(T, P, Q) ==
    CHOOSE Z \in { E_addValues(T, p1, p2) : p1 \in {P}, p2 \in {Q} } : TRUE

\* double-and-add
RECURSIVE E_multiplyValues(_, _, _)
E_multiplyValues(T, k, P) ==
    IF k = 0 THEN FinitePoint
    ELSE CHOOSE Z \in
           { IF k % 2 = 1 THEN E_addValues(T, db, P) ELSE db :
               db \in { E_addValues(T, hf, hf) :
                          hf \in {E_multiplyValues(T, k \div 2, P)} } } : TRUE

E_multiply(T, k, P) ==
    CHOOSE Z \in { E_multiplyValues(T, k1, p1) : k1 \in {k}, p1 \in {P} } : TRUE

\* the y the solver assigns to x: the square root by exponentiation, p = 3 mod 4
E_solve(T, x) ==
    LET rhs == F_add(T.p, F_add(T.p, F_power(T.p, x, 3), F_multiply(T.p, T.a, x)), T.b)
    IN  Point(x, F_power(T.p, rhs, (T.p + 1) \div 4))

OnCurve(T, P) ==
    /\ ~P.isIdentity
    /\ P.x \in 0..(T.p - 1) /\ P.y \in 0..(T.p - 1)
    /\ F_multiply(T.p, P.y, P.y) =
         F_add(T.p, F_add(T.p, F_power(T.p, P.x, 3), F_multiply(T.p, T.a, P.x)), T.b)

\* FiniteDomain.divide: the point divided by a scalar of the scalar field
T_divide(T, P, s) == E_multiply(T, F_reciprocal(T.n, s), P)

\* FiniteDomain.public
T_public(T, d) == E_multiply(T, d, T.G)

(***************************************************************************)
(* Domain parameters: curve y^2 = x^3 + a x + b over GF(p), p = 3 mod 4,   *)
(* generator G of prime order n, cofactor h.  ds and es are the secrets    *)
(* and digests signed in each domain.                                      *)
(***************************************************************************)
Domains ==
    { [name |-> "p19n13", p |-> 19, a |-> 0, b |-> 14, n |-> 13, h |-> 1,
       G |-> Point(13, 8), ds |-> 1..MaxSecret, es |-> (0..MaxDigest) \cup {256 + MaxDigest}],
      [name |-> "p7n11", p |-> 7, a |-> 1, b |-> 6, n |-> 11, h |-> 1,
       G |-> Point(1, 1), ds |-> 1..MaxSecret, es |-> (0..MaxDigest) \cup {256 + MaxDigest}],
      [name |-> "p19n11h2", p |-> 19, a |-> 1, b |-> 13, n |-> 11, h |-> 2,
       G |-> Point(11, 5), ds |-> 1..MaxSecret, es |-> (0..MaxDigest) \cup {256 + MaxDigest}],
      [name |-> "p251n263", p |-> 251, a |-> 2, b |-> 43, n |-> 263, h |-> 1,
       G |-> Point(4, 93), ds |-> {5}, es |-> {9}] }

(***************************************************************************)
(* Byte helpers.  A Uint8Array of B bytes is a sequence of B values in     *)
(* 0..255; index i of the array is index i+1 of the sequence.              *)
(***************************************************************************)
RECURSIVE Pow256(_)
Pow256(i) == IF i = 0 THEN 1 ELSE 256 * Pow256(i - 1)

\* scan from the most significant byte (the last) down to the first
RECURSIVE compareFrom(_, _, _)
compareFrom(a, b, i) ==
    IF i < 1 THEN 0
    ELSE IF a[i] > b[i] THEN 1
    ELSE IF a[i] < b[i] THEN 0 - 1
    ELSE compareFrom(a, b, i - 1)

compare(a, b) == compareFrom(a, b, Len(a))

\* byte i takes b & 0xff after i shifts by 8; writes past the end are dropped
bigintToUint8Array_LE(b, B) ==
    [i \in 1..B |-> (b \div Pow256(i - 1)) % 256]

RECURSIVE sumBytes(_, _)
sumBytes(a, m) ==
    IF m = 0 THEN 0 ELSE sumBytes(a, m - 1) + a[m] * Pow256(m - 1)

uint8ArrayToBigint_LE(a, B) ==
    sumBytes(a, IF Len(a) < B THEN Len(a) ELSE B)

RECURSIVE nByteLength(_)
nByteLength(n) == IF n > 0 THEN 1 + nByteLength(n \div 256) ELSE 0

(***************************************************************************)
(* The three wirings of the protocol.                                      *)
(*   "base"        EcdsaSec:         {r,s},   generic recoverer            *)
(*   "recoverable" EcdsaFastRecover: {r,s,v}, fast recoverer               *)
(*   "class"       the Ecdsa class with static sign/verify/recover_p3mod4  *)
(***************************************************************************)
Forms == {"base", "recoverable", "class"}

NoV == 0 - 1

\* the hashlen an instance can have: a constructor argument of the class
\* form; the generic form has none (0)
HashLens(form) == IF form = "class" THEN 1..MaxHashlen ELSE {0}

\* byte length of the nonce buffer K: nByteLength in the generic form, the
\* instance's hashlen in the class form
nonceLength(T, form, hashlen) ==
    IF form = "class" THEN hashlen ELSE nByteLength(T.n)

\* a message of the caller's: the bytes of x, little-endian
message(x) == bigintToUint8Array_LE(x, MaxHashlen)

\* the digest integer e: the caller's mapping of the message in the generic
\* form (all its bytes, little-endian), the little-endian decoding of hashlen
\* bytes of the hash in the class form
digest(form, hashlen, M) ==
    IF form = "class"
    THEN uint8ArrayToBigint_LE(M, hashlen)
    ELSE uint8ArrayToBigint_LE(M, Len(M))

\* N = bigintToUint8Array_LE(T.n, length of K)
nonceBound(T, form, hashlen) ==
    bigintToUint8Array_LE(T.n, nonceLength(T, form, hashlen))

\* variant: the test for zero written >= 0, which every draw passes
redraw_always(T, form, hashlen, K) ==
    LET L    == nonceLength(T, form, hashlen)
        N    == nonceBound(T, form, hashlen)
        zero == [i \in 1..L |-> 0]
    IN  IF form = "class"
        THEN compare(K, N) = 1 \/ compare(K, zero) >= 0
        ELSE compare(K, N) >= 0 \/ compare(K, zero) >= 0

\* the condition of the do-while: TRUE when the drawn bytes are redrawn
redraw(T, form, hashlen, K) ==
    LET L    == nonceLength(T, form, hashlen)
        N    == nonceBound(T, form, hashlen)
        zero == [i \in 1..L |-> 0]
    IN  IF form = "class"
        THEN compare(K, N) = 1 \/ compare(K, zero) = 0
        ELSE compare(K, N) >= 0 \/ compare(K, zero) = 0

\* what crypto.getRandomValues(K) writes: byte strings of the length of K
Draws(T, form, hashlen) ==
    LET L   == nonceLength(T, form, hashlen)
        top == uint8ArrayToBigint_LE(nonceBound(T, form, hashlen), L) + MaxDraw
    IN  { bigintToUint8Array_LE(k, L) :
            k \in 0..(IF top < Pow256(L) THEN top ELSE Pow256(L) - 1) }

\* _f6555a_ / _f34c7e_ and the class's Signature
baseShape(r, s) == [r |-> r, s |-> s, v |-> NoV]

\* _033399_ / _30ecde_: recovery discriminant and low-s normalisation
\* variant: s is replaced by n - s without flipping bit 0 of v
lowS_noFlip(r, s, v, n) ==
    IF s > n \div 2
    THEN [r |-> r, s |-> n - s, v |-> v]
    ELSE [r |-> r, s |-> s, v |-> v]

lowS(r, s, v, n) ==
    IF s > n \div 2
    THEN [r |-> r, s |-> n - s, v |-> IF v % 2 = 1 THEN v - 1 ELSE v + 1]
    ELSE [r |-> r, s |-> s, v |-> v]

\* variant: the discriminant without the low-s normalisation
recoverableShape_noLowS(r, s, R, n) ==
    [r |-> r, s |-> s, v |-> (R.y % 2) + 2 * (R.x \div n)]

recoverableShape(r, s, R, n) ==
    lowS(r, s, (R.y % 2) + 2 * (R.x \div n), n)

shape(T, form, r, s, R) ==
    IF form = "recoverable" THEN recoverableShape(r, s, R, T.n)
    ELSE baseShape(r, s)

\* variant: the loop body without the s == 0 retry
signShape_noZeroS(T, form, R, r, s) ==
    [kind |-> "return", R |-> R, S |-> shape(T, form, r, s, R)]

\* One pass of the signing loop with the accepted nonce k, in three steps.
\* if (s == 0n) continue; return _7f_(T, d, M, e, r, s, R)
signShape(T, form, R, r, s) ==
    IF s = 0
    THEN [kind |-> "zero_s", R |-> R, S |-> baseShape(r, 0)]
    ELSE [kind |-> "return", R |-> R, S |-> shape(T, form, r, s, R)]

\* if (r == 0n) continue; s = (e + r d) / k
signScalar(T, form, d, e, k, R, r) ==
    IF r = 0 THEN [kind |-> "zero_r", R |-> R, S |-> baseShape(0, 0)]
    ELSE CHOOSE t \in
           { signShape(T, form, R, r, s) :
               s \in { F_divide(T.n, F_add(T.n, e, F_multiply(T.n, r, d)), k) } } : TRUE

\* R = k.G; if (R.x === undefined) continue; r = R.x % n
signTry(T, form, d, e, k) ==
    CHOOSE t \in
      { IF R.x = Undefined
        THEN [kind |-> "infinity", R |-> R, S |-> baseShape(0, 0)]
        ELSE signScalar(T, form, d, e, k, R, R.x % T.n) :
          R \in {E_multiply(T, k, T.G)} } : TRUE

(***************************************************************************)
(* Verifier (Ecdsa.verify, both forms).  The result is one of "true",      *)
(* "false", "fault" (an exception or no result).  The range check tests    *)
(* == 0 and >= n only: a negative r or s passes it and reaches the scalar  *)
(* arithmetic, which is defined on field elements only; what the           *)
(* arithmetic does with it is not fixed by this code, so every outcome is  *)
(* possible there: a fault, "false", or the result for s reduced mod n.    *)
(***************************************************************************)
\* variant: the final comparison without the reduction of R.x mod n
verifyArith_noMod(T, Q, r, s, e) ==
    \E R \in { T_divide(T, E_add(T, E_multiply(T, e, T.G), E_multiply(T, r, Q)), s) } :
        IF R.isIdentity THEN FALSE ELSE R.x = r

\* eG = e.G; rQ = r.Q; R = (eG + rQ) / s; accepted when R.x % n == r
verifyArith(T, Q, r, s, e) ==
    \E R \in { T_divide(T, E_add(T, E_multiply(T, e, T.G), E_multiply(T, r, Q)), s) } :
        IF R.isIdentity THEN FALSE ELSE R.x % T.n = r

result(b) == IF b THEN "true" ELSE "false"

\* a verifier that enforces low-s: s > n >> 1 is rejected
verify_lowS(T, Q, S, e) ==
    IF S.r = 0 \/ S.r >= T.n THEN {"false"}
    ELSE IF S.s = 0 \/ S.s >= T.n THEN {"false"}
    ELSE IF S.s > T.n \div 2 THEN {"false"}
    ELSE IF S.r < 0 THEN {"false", "fault"}
    ELSE IF S.s < 0 THEN {result(verifyArith(T, Q, S.r, S.s % T.n, e)), "false", "fault"}
    ELSE {result(verifyArith(T, Q, S.r, S.s, e))}

verify(T, Q, S, e) ==
    IF S.r = 0 \/ S.r >= T.n THEN {"false"}
    ELSE IF S.s = 0 \/ S.s >= T.n THEN {"false"}
    ELSE IF S.r < 0 THEN {"false", "fault"}
    ELSE IF S.s < 0 THEN {result(verifyArith(T, Q, S.r, S.s % T.n, e)), "false", "fault"}
    ELSE {result(verifyArith(T, Q, S.r, S.s, e))}

(***************************************************************************)
(* Generic recoverer (_2bfce0_, Ecdsa.recover_p3mod4): a generator.  The   *)
(* call makes the iterator and runs nothing; each next() runs the body up  *)
(* to the next yield or to the end, reading S and M as they are then.  The *)
(* iterator g keeps the generator's position and locals:                   *)
(*   at     "created" (not started), "yielded" (suspended at the yield),   *)
(*          "done"                                                         *)
(*   j, k   the indices of the two loops                                   *)
(*   R      the local point R; eG, recip: the locals eG and reciprocalR    *)
(* A yield is recorded with the point R and the index j it came from.      *)
(***************************************************************************)
\* const R = new FinitePoint(); R.isIdentity = false
created ==
    [at |-> "created", j |-> 0, k |-> 0,
     R |-> [x |-> Undefined, y |-> Undefined, isIdentity |-> FALSE],
     eG |-> FinitePoint, recip |-> 0]

\* Qa = reciprocalR . (s.R + eG)
candidate(T, S, eG, reciprocalR, R) ==
    E_multiply(T, reciprocalR, E_add(T, E_multiply(T, S.s, R), eG))

\* variant: the digest term built from the reciprocal of e instead of -e
digestTerm_recip(T, e) == E_multiply(T, F_reciprocal(T.n, e), T.G)

\* inverseE = T.F.inverse(e); T.E.multiply(eG, inverseE, T.G)
digestTerm(T, e) == E_multiply(T, F_inverse(T.n, e), T.G)

\* e, eG and reciprocalR: set once before the loop in the generic form (e
\* reduced mod n), and in the loop body after the n.R test in the class form
\* (e as decoded)
locals(T, form, hashlen, S, M, g) ==
    [g EXCEPT !.eG = digestTerm(T, IF form = "class" THEN digest(form, hashlen, M)
                                   ELSE digest(form, hashlen, M) % T.n),
              !.recip = F_reciprocal(T.n, S.r)]

\* yield Qa, suspended in pass k of the inner loop of index j
yield(T, S, g, j, k, R) ==
    [it  |-> [g EXCEPT !.at = "yielded", !.j = j, !.k = k, !.R = R],
     out |-> << [Q |-> candidate(T, S, g.eG, g.recip, R), R |-> R, j |-> j] >>]

\* for (j ...; j <= h; j++): R.x = r + j n (in the base field); solve(R);
\* skipped unless n.R is the identity; runs to the first yield or to the end
RECURSIVE loopFrom(_, _, _, _, _, _, _)
loopFrom(T, form, hashlen, S, M, g, j) ==
    IF j > T.h THEN [it |-> [g EXCEPT !.at = "done", !.j = j], out |-> <<>>]
    ELSE CHOOSE res \in
           { IF E_multiply(T, T.n, R).isIdentity
             THEN yield(T, S, IF form = "class" THEN locals(T, form, hashlen, S, M, g)
                              ELSE g, j, 0, R)
             ELSE loopFrom(T, form, hashlen, S, M, [g EXCEPT !.R = R], j + 1) :
               R \in {E_solve(T, F_add(T.p, S.r, j * T.n))} } : TRUE

\* one next() of the iterator
next(T, form, hashlen, S, M, g) ==
    IF g.at = "created"
    THEN loopFrom(T, form, hashlen, S, M,
                  IF form = "class" THEN g ELSE locals(T, form, hashlen, S, M, g), 0)
    ELSE IF g.at = "yielded" /\ g.k = 0
    THEN yield(T, S, g, g.j, 1, E_negate(T, g.R))
    ELSE IF g.at = "yielded"
    THEN loopFrom(T, form, hashlen, S, M, [g EXCEPT !.R = E_negate(T, g.R)], g.j + 1)
    ELSE [it |-> g, out |-> <<>>]

(***************************************************************************)
(* Fast recoverer (_560c92_).                                              *)
(***************************************************************************)
\* Q = u1.G + u2.R with u1 = inverse(h).ir, u2 = s.ir, h = e % n
fastPoint(T, S, e, R, ir) ==
    E_add(T, E_multiply(T, F_multiply(T.n, F_inverse(T.n, e % T.n), ir), T.G),
             E_multiply(T, F_multiply(T.n, S.s, ir), R))

\* the solved point, negated when its parity differs from bit 0 of v
fastR(T, S, R0) ==
    IF (S.v % 2) # (R0.y % 2) THEN E_negate(T, R0) ELSE R0

recover_fast(T, S, e) ==
    CHOOSE out \in
      { fastPoint(T, S, e, fastR(T, S, R0), F_reciprocal(T.n, R0.x)) :
          R0 \in {E_solve(T, S.r + (S.v \div 2) * T.n)} } : TRUE

(***************************************************************************)
(* State.                                                                  *)
(***************************************************************************)
VARIABLES
    T,          \* the domain parameters of the Ecdsa instance
    form,       \* the wiring of the instance
    hashlen,    \* the hashlen of the instance (class form)
    pc,         \* where the running operation is
    d,          \* sign: the secret
    M,          \* the message (the hash, in the class form) of the operation
    e,          \* the digest integer of the message, as sign or verify decoded it
    K,          \* sign: the nonce buffer
    R,          \* sign: the ephemeral point
    S,          \* the signature returned by sign, or handed to verify/recover
    Q,          \* the public point handed to verify
    verified,   \* verify's result: "none" until it ran
    it,         \* the iterator of the generic recoverer
    touched,    \* the consumer wrote to S or M while the iterator was open
    recovered   \* the recoverer's yields

vars == <<T, form, hashlen, pc, d, M, e, K, R, S, Q, verified, it, touched, recovered>>

\* an instance constructed over one of the domains Ds
Constructed(Ds) ==
    /\ T \in Ds
    /\ form \in Forms
    /\ hashlen \in HashLens(form)
    /\ pc = "idle"
    /\ d = 0
    /\ M = message(0)
    /\ e = 0
    /\ K = [i \in 1..nonceLength(T, form, hashlen) |-> 0]
    /\ R = FinitePoint
    /\ S = baseShape(0, 0)
    /\ Q = FinitePoint
    /\ verified = "none"
    /\ it = created
    /\ touched = FALSE
    /\ recovered = <<>>

Init == Constructed(Domains)

\* sign(d, M): the setup before the loop
SignCall(dd, x) ==
    /\ pc = "idle"
    /\ d' = dd
    /\ M' = message(x)
    /\ e' = digest(form, hashlen, M')
    /\ Q' = T_public(T, dd)
    /\ pc' = "draw"
    /\ UNCHANGED <<T, form, hashlen, K, R, S, verified, it, touched, recovered>>

\* do crypto.getRandomValues(K) while (...): a draw that is redrawn
DrawRejected(bytes) ==
    /\ pc = "draw"
    /\ redraw(T, form, hashlen, bytes)
    /\ K' = bytes
    /\ pc' = "draw"
    /\ UNCHANGED <<T, form, hashlen, d, M, e, R, S, Q, verified, it, touched, recovered>>

\* a draw that leaves the do-while
DrawAccepted(bytes) ==
    /\ pc = "draw"
    /\ ~redraw(T, form, hashlen, bytes)
    /\ K' = bytes
    /\ pc' = "nonce"
    /\ UNCHANGED <<T, form, hashlen, d, M, e, R, S, Q, verified, it, touched, recovered>>

nonce == uint8ArrayToBigint_LE(K, nonceLength(T, form, hashlen))

\* the rest of the loop body: continue on a degenerate value, else return
SignRetry(kind) ==
    /\ pc = "nonce"
    /\ LET t == signTry(T, form, d, e, nonce)
       IN  /\ t.kind = kind
           /\ R' = t.R
    /\ pc' = "draw"
    /\ UNCHANGED <<T, form, hashlen, d, M, e, K, S, Q, verified, it, touched, recovered>>

SignReturn ==
    /\ pc = "nonce"
    /\ LET t == signTry(T, form, d, e, nonce)
       IN  /\ t.kind = "return"
           /\ R' = t.R
           /\ S' = t.S
    /\ pc' = "signed"
    /\ UNCHANGED <<T, form, hashlen, d, M, e, K, Q, verified, it, touched, recovered>>

\* verify(d.G, sign(d, M), M)
VerifySigned ==
    /\ pc = "signed"
    /\ verified' \in verify(T, Q, S, digest(form, hashlen, M))
    /\ pc' = "verified"
    /\ UNCHANGED <<T, form, hashlen, d, M, e, K, R, S, Q, it, touched, recovered>>

\* recover(sign(d, M), M): the fast recoverer returns its point; the generic
\* one returns an iterator that has not run yet
RecoverSigned ==
    /\ pc = "verified"
    /\ IF form = "recoverable"
       THEN /\ recovered' = << [Q |-> recover_fast(T, S, digest(form, hashlen, M)),
                                R |-> FinitePoint, j |-> S.v \div 2] >>
            /\ pc' = "recovered"
       ELSE /\ recovered' = <<>>
            /\ pc' = "iterating"
    /\ it' = created
    /\ touched' = FALSE
    /\ UNCHANGED <<T, form, hashlen, d, M, e, K, R, S, Q, verified>>

\* verify(Q, {r,s}, M) on a signature of the caller's
VerifyCall(dd, r, s, x) ==
    /\ pc = "idle"
    /\ form # "recoverable"
    /\ Q' = T_public(T, dd)
    /\ S' = baseShape(r, s)
    /\ M' = message(x)
    /\ e' = digest(form, hashlen, M')
    /\ verified' \in verify(T, Q', S', e')
    /\ pc' = "checked"
    /\ UNCHANGED <<T, form, hashlen, d, K, R, it, touched, recovered>>

\* the generic recoverer on a signature of the caller's, 0 < r, s < n: the
\* iterator, not run yet
RecoverCall(r, s, x) ==
    /\ pc = "idle"
    /\ form # "recoverable"
    /\ S' = baseShape(r, s)
    /\ M' = message(x)
    /\ e' = digest(form, hashlen, M')
    /\ it' = created
    /\ touched' = FALSE
    /\ recovered' = <<>>
    /\ pc' = "enumerating"
    /\ UNCHANGED <<T, form, hashlen, d, K, R, Q, verified>>

\* an iterator of the generic recoverer is open
Open == pc \in {"iterating", "enumerating"}

\* it.next(): the body runs to the next yield, or to the end
RecoverNext ==
    /\ Open
    /\ \E res \in {next(T, form, hashlen, S, M, it)} :
          /\ it' = res.it
          /\ recovered' = recovered \o res.out
          /\ pc' = IF res.it.at # "done" THEN pc
                   ELSE IF pc = "iterating" THEN "recovered" ELSE "enumerated"
    /\ UNCHANGED <<T, form, hashlen, d, M, e, K, R, S, Q, verified, touched>>

\* between two next(): the consumer writes to the signature object or to the
\* message buffer it passed (S.s = v, S.r = v, M[0] = v)
ConsumerWritesS(v) ==
    /\ Open /\ it.at = "yielded" /\ ~touched
    /\ S' = [S EXCEPT !.s = v]
    /\ touched' = TRUE
    /\ UNCHANGED <<T, form, hashlen, pc, d, M, e, K, R, Q, verified, it, recovered>>

ConsumerWritesR(v) ==
    /\ Open /\ it.at = "yielded" /\ ~touched
    /\ S' = [S EXCEPT !.r = v]
    /\ touched' = TRUE
    /\ UNCHANGED <<T, form, hashlen, pc, d, M, e, K, R, Q, verified, it, recovered>>

ConsumerWritesM(v) ==
    /\ Open /\ it.at = "yielded" /\ ~touched
    /\ M' = [M EXCEPT ![1] = v]
    /\ touched' = TRUE
    /\ UNCHANGED <<T, form, hashlen, pc, d, S, e, K, R, Q, verified, it, recovered>>

Small == T.n < 256

Next ==
    \/ /\ pc = "idle"
       /\ \E dd \in T.ds, x \in T.es : SignCall(dd, x)
    \/ /\ pc = "draw"
       /\ \E bytes \in Draws(T, form, hashlen) : DrawRejected(bytes)
    \/ /\ pc = "draw"
       /\ \E bytes \in Draws(T, form, hashlen) : DrawAccepted(bytes)
    \/ \E kind \in {"infinity", "zero_r", "zero_s"} : SignRetry(kind)
    \/ SignReturn
    \/ VerifySigned
    \/ RecoverSigned
    \/ /\ pc = "idle" /\ Small
       /\ \E dd \in 1..MaxArgSecret, r \in (0 - MaxOut)..(T.n + MaxOut),
             s \in (0 - MaxOut)..(T.n + MaxOut), x \in 0..MaxArgDigest :
               VerifyCall(dd, r, s, x)
    \/ /\ pc = "idle" /\ Small
       /\ \E r \in 1..(T.n - 1), s \in 1..(T.n - 1), x \in 0..MaxArgDigest :
               RecoverCall(r, s, x)
    \/ RecoverNext
    \/ /\ Open /\ \E v \in 1..MaxTamper : ConsumerWritesS(v)
    \/ /\ Open /\ \E v \in 1..MaxTamper : ConsumerWritesR(v)
    \/ /\ Open /\ \E v \in 1..MaxTamper : ConsumerWritesM(v)

Spec == Init /\ [][Next]_vars

(***************************************************************************)
(* Properties.                                                             *)
(***************************************************************************)
Returned == pc \in {"signed", "verified", "iterating", "recovered"}

InRange(x, n) == 0 < x /\ x < n

\* the s of the signing equation for the nonce in K, before any normalisation
rawS == F_divide(T.n, F_add(T.n, e, F_multiply(T.n, R.x % T.n, d)), nonce)

\* C1 (round trip): verify(d.G, sign(d, e), e) is true for every signature
\* sign returns, in base, recoverable and class form.
C1_RoundTrip ==
    pc \in {"verified", "iterating", "recovered"} => verified = "true"

\* a normalised recoverable signature over a digest >= n whose ephemeral
\* point has x >= n was verified
C1_Witness ==
    /\ pc = "verified" /\ verified = "true" /\ form = "recoverable"
    /\ e >= T.n /\ R.x >= T.n /\ S.s # rawS

\* C3 (fast recovery): the fast recoverer returns exactly d.G for every
\* recoverable signature sign returns.
C3_FastRecovery ==
    (pc = "recovered" /\ form = "recoverable") =>
        (Len(recovered) = 1 /\ recovered[1].Q = T_public(T, d))

\* recovery of a signature whose s was replaced by n - s and whose v carries
\* a multiple of n
C3_Witness ==
    /\ pc = "recovered" /\ form = "recoverable"
    /\ S.s # rawS /\ S.v >= 2
    /\ recovered[1].Q = T_public(T, d)

\* C4 (generic recovery, completeness): d.G is among the points the generic
\* recoverer yields, consumed to its end with its arguments left alone, for
\* every signature sign returns (all domains here have p = 3 mod 4).
C4_Completeness ==
    (pc = "recovered" /\ form # "recoverable" /\ ~touched) =>
        \E i \in 1..Len(recovered) : recovered[i].Q = T_public(T, d)

\* d.G is found from the second candidate x = r + n
C4_Witness ==
    /\ pc = "recovered" /\ form = "base" /\ ~touched /\ R.x >= T.n
    /\ \E i \in 1..Len(recovered) :
          recovered[i].Q = T_public(T, d) /\ recovered[i].j = 1

\* the nonce k is degenerate for (d, e): k.G is the point at infinity, or
\* r = 0, or s = 0 (e + r d = 0 mod n)
DegenerateNonce(k) ==
    \E kG \in {E_multiply(T, k, T.G)} :
        \/ kG.isIdentity
        \/ kG.x % T.n = 0
        \/ (e + (kG.x % T.n) * d) % T.n = 0

Degenerate == DegenerateNonce(nonce)

\* C5 (signature range): a pass of the signing loop over a degenerate nonce
\* returns nothing and goes back to drawing; any other pass returns a
\* signature with 0 < r < n and 0 < s < n, in every form.
C5_SignatureRange ==
    [][pc = "nonce" =>
         IF Degenerate
         THEN pc' = "draw" /\ S' = S
         ELSE pc' = "signed" /\ InRange(S'.r, T.n) /\ InRange(S'.s, T.n)]_vars

\* a pass over a degenerate nonce went back to drawing, nothing returned
C5_Witness ==
    /\ pc = "draw" /\ nonce # 0 /\ Degenerate /\ S = baseShape(0, 0)

\* C6 (low-s): a recoverable signature returned by sign has s <= n/2, and
\* the normalisation step applied to it again changes nothing.
C6_LowS ==
    (Returned /\ form = "recoverable") =>
        /\ 2 * S.s <= T.n
        /\ lowS(S.r, S.s, S.v, T.n) = S

\* a returned signature whose s was above n/2 before normalisation
C6_Witness ==
    /\ pc = "signed" /\ form = "recoverable"
    /\ 2 * rawS > T.n /\ S.s = T.n - rawS

\* C2 (range rejection): verify returns false, without a fault, whenever
\* r <= 0 or r >= n or s <= 0 or s >= n.
C2_RangeRejection ==
    (pc = "checked" /\ ~(InRange(S.r, T.n) /\ InRange(S.s, T.n))) =>
        verified = "false"

\* C7 (nonce range): the draws the sampler accepts are exactly those whose
\* little-endian value k has 1 <= k < n, in the generic and the class form.
C7_NonceRange ==
    /\ pc = "nonce" => (1 <= nonce /\ nonce < T.n)
    /\ pc = "idle" =>
         \A k \in 1..(T.n - 1) :
            ~redraw(T, form, hashlen,
                    bigintToUint8Array_LE(k, nonceLength(T, form, hashlen)))

\* the candidate x of index j, as an integer
candidateX(j) == S.r + j * T.n

\* index j has a curve point of order dividing n at x = r + j n
Recoverable(j) ==
    /\ candidateX(j) < T.p
    /\ OnCurve(T, E_solve(T, candidateX(j)))
    /\ E_multiply(T, T.n, E_solve(T, candidateX(j))).isIdentity

\* C9 (generic recovery, soundness): every point yielded for a signature
\* with 0 < r, s < n came from a curve point R with x = r + j n (as an
\* integer) and n.R = infinity, and verifies; an index j whose x is not on
\* the curve, or whose point fails the n.R check, yields nothing (the
\* generator consumed to its end with its arguments left alone).
C9_Soundness ==
    (pc = "enumerated" /\ ~touched) =>
        \A i \in 1..Len(recovered) :
            /\ Recoverable(recovered[i].j)
            /\ recovered[i].R.x = candidateX(recovered[i].j)
            /\ verify(T, recovered[i].Q, S, e) = {"true"}

\* a draw that leaves the do-while with a nonce that is not degenerate
DrawGood ==
    /\ pc = "draw"
    /\ K' \in Draws(T, form, hashlen)
    /\ DrawAccepted(K')
    /\ ~DegenerateNonce(uint8ArrayToBigint_LE(K', nonceLength(T, form, hashlen)))

\* The signing loop runs on (weak fairness of its steps) and the random
\* source is fair: every nonce value keeps being drawn, so a value that is
\* not degenerate keeps being drawn whenever one exists (strong fairness: a
\* draw is possible only while the loop is at its do-while).
FairSpec ==
    /\ Init
    /\ [][Next]_vars
    /\ WF_vars(SignReturn)
    /\ WF_vars(\E kind \in {"infinity", "zero_r", "zero_s"} : SignRetry(kind))
    /\ SF_vars(DrawGood)

\* C10 (signer termination): under a fair random source every sign call
\* returns a signature: no (d, e) makes every nonce degenerate.
C10_Termination == (pc = "draw") ~> (pc = "signed")

\* a sign call returned for a (d, e) that has a nonce with s = 0
C10_Witness ==
    /\ pc = "signed"
    /\ \E k \in 1..(T.n - 1) :
          (e + (E_multiply(T, k, T.G).x % T.n) * d) % T.n = 0

\* the other member of the pair (r, s) / (r, n - s)
mirror == [S EXCEPT !.s = T.n - S.s]

\* C11 (no low-s enforcement): for a signature with 0 < r, s < n, of the
\* caller's or of the signer's, verify(Q, {r, s}, e) and
\* verify(Q, {r, n - s}, e) return the same boolean.
C11_MirrorVerify ==
    (pc \in {"checked", "verified"} /\ InRange(S.r, T.n) /\ InRange(S.s, T.n)) =>
        verify(T, Q, mirror, e) = {verified}

\* a signature of the caller's with s above n / 2 was accepted
C11_Witness ==
    /\ pc = "checked" /\ InRange(S.r, T.n) /\ InRange(S.s, T.n)
    /\ 2 * S.s > T.n /\ verified = "true"
    /\ verify(T, Q, mirror, e) = {"true"}

====
